---- MODULE Spec2Model ----
(***************************************************************************)
(* Model of app.py: the symbol registry, the file-backed options-chain     *)
(* cache, the Gemini analysis streamer and the /stream_analysis handler.   *)
(*                                                                         *)
(* Time is counted in minutes.  A cache file is a sequence of written      *)
(* blocks plus a last-modified time; open(path, "w") truncates it and      *)
(* json.dump fills it block by block, each writer at its own offset.       *)
(***************************************************************************)
EXTENDS Integers, Sequences, FiniteSets, TLC

\* ---------------------------------------------------------------- bounds
MaxTime == 60
MaxPayload == 2
MaxChunks == 2
MaxListLen == 3
MaxExpiries == 3

\* ------------------------------------------------------ program constants
FRESH_MINUTES == 30
DATA_DIR == "data"

\* ------------------------------------------------------------ input sets
\* (symbol, expiry_date) form fields of the requests that are issued
Requests == { <<"A", "C">>, <<"A", "B_C">>, <<"A_B", "C">> }
\* minutes that may pass between two steps
Deltas == {29, 30, 31}
Payloads == 1..MaxPayload
\* the threads that serve requests
Procs == {1, 2}
SeqProcs == {1}
\* the one key two concurrent requests are issued for
SameKeyRequests == { <<"A", "C">> }

VARIABLES
    clock,          \* datetime.now(), in minutes
    files,          \* the files under DATA_DIR, by path
    pc,             \* position of each request handler
    symbol,         \* request.form["symbol"]
    expiry_date,    \* request.form["expiry_date"]
    current_time,   \* local of fetch_and_cache_options_data
    last_modified,  \* local of fetch_and_cache_options_data (NoMtime: no file)
    options_data,   \* local of fetch_and_cache_options_data / of the handler
    offset,         \* number of blocks json.dump has flushed to the open file
    nse_calls,      \* calls of nse_optionchain_scrapper made by the request
    gemini_calls,   \* calls of model.generate_content made by the request
    provided,       \* chunks the Gemini response stream has yielded so far
    events,         \* the response body: the events emitted so far
    raised,         \* an exception left the handler (HTTP 500)
    symbols_file,   \* the state of NSE_SYMBOLS_FILE
    index_symbols,  \* outcome of get_derivative_symbols() in index()
    expiries_data,  \* outcome of nse_optionchain_scrapper in get_expiries()
    expiries_reply, \* the response of get_expiries()
    written_for     \* history: the (symbol, expiry_date) of the call that
                    \* last opened each file for writing

cacheVars == <<clock, files, pc, symbol, expiry_date, current_time,
               last_modified, options_data, offset, nse_calls, gemini_calls,
               provided, events, raised>>

registryVars == <<symbols_file, index_symbols>>

expiryVars == <<expiries_data, expiries_reply>>

historyVars == <<written_for>>

vars == <<cacheVars, registryVars, expiryVars, historyVars>>

\* ------------------------------------------------------------- the values
None == [kind |-> "None"]
NoMtime == -1
NoFile == [exists |-> FALSE, content |-> <<>>, mtime |-> 0]

\* no call has written the file
NoKey == <<"", "">>

\* the file named after the symbol alone
file_path_by_symbol(s, e) == DATA_DIR \o "/" \o s \o ".json"

\* line 45: os.path.join(DATA_DIR, f"{symbol}_{expiry_date}.json")
file_path(s, e) == DATA_DIR \o "/" \o s \o "_" \o e \o ".json"

Paths == { file_path(r[1], r[2]) : r \in Requests }

\* nse_optionchain_scrapper(symbol): the provider's answer for a symbol
ScrapperData(s, n) == [kind |-> "dict", symbol |-> s, payload |-> n]

\* the answer left without a fetch_timestamp (NoMtime: no such field)
StampOmitted(d, t) ==
    [kind |-> "dict", symbol |-> d.symbol, payload |-> d.payload,
     fetch_timestamp |-> NoMtime]

\* line 56: options_data["fetch_timestamp"] = current_time.isoformat()
Stamp(d, t) ==
    [kind |-> "dict", symbol |-> d.symbol, payload |-> d.payload,
     fetch_timestamp |-> t]

\* json.dump(options_data, f, indent=4): the text of a snapshot, as the
\* sequence of blocks that reach the file; a payload n fills n blocks
JsonDump(d) == [i \in 1..d.payload |-> [of |-> d, block |-> i]]

\* json.load(f): the value, or JSONDecodeError for a text that is not the
\* complete text of one value (empty file, prefix, hole, blocks of two writers)
JSONDecodeError == [kind |-> "JSONDecodeError"]

JsonLoad(content) ==
    IF /\ Len(content) > 0
       /\ content[1].of.kind = "dict"
       /\ content = JsonDump(content[1].of)
    THEN content[1].of
    ELSE JSONDecodeError

\* the subtraction the other way round: the difference is never positive
IsFreshReversed(now, mtime) == (mtime - now) < FRESH_MINUTES

\* line 50: (current_time - last_modified) < timedelta(minutes=30)
IsFresh(now, mtime) == (now - mtime) < FRESH_MINUTES

Path(p) == file_path(symbol[p], expiry_date[p])

\* ------------------------------------------------------ symbol registry
\* JSON values of the symbol file: a string is the sequence of its code
\* points, so that sorted() can compare strings as Python does
JsonStr(cs) == [t |-> "str", v |-> cs]
JsonInt(n) == [t |-> "int", v |-> n]
\* a nested list: not hashable
Nested == [t |-> "list", v |-> 0]

\* lines 21-25
get_default_derivative_symbols ==
    <<
       JsonStr(<<78, 73, 70, 84, 89>>),   \* NIFTY
       JsonStr(<<66, 65, 78, 75, 78, 73, 70, 84, 89>>),   \* BANKNIFTY
       JsonStr(<<70, 73, 78, 78, 73, 70, 84, 89>>),   \* FINNIFTY
       JsonStr(<<77, 73, 68, 67, 80, 78, 73, 70, 84, 89>>),   \* MIDCPNIFTY
       JsonStr(<<82, 69, 76, 73, 65, 78, 67, 69>>),   \* RELIANCE
       JsonStr(<<84, 67, 83>>),   \* TCS
       JsonStr(<<72, 68, 70, 67, 66, 65, 78, 75>>),   \* HDFCBANK
       JsonStr(<<73, 67, 73, 67, 73, 66, 65, 78, 75>>),   \* ICICIBANK
       JsonStr(<<73, 78, 70, 89>>),   \* INFY
       JsonStr(<<83, 66, 73, 78>>),   \* SBIN
       JsonStr(<<76, 84>>)    \* LT
    >>

RECURSIVE StrLess(_, _)
\* a < b on Python strings: lexicographic on code points
StrLess(a, b) ==
    IF b = <<>> THEN FALSE
    ELSE IF a = <<>> THEN TRUE
    ELSE IF Head(a) # Head(b) THEN Head(a) < Head(b)
    ELSE StrLess(Tail(a), Tail(b))

\* x < y on two values of the same type
Less(x, y) == IF x.t = "str" THEN StrLess(x.v, y.v) ELSE x.v < y.v

RECURSIVE Sorted(_)
\* sorted(S) of a set of mutually comparable values
Sorted(S) ==
    IF S = {} THEN <<>>
    ELSE LET m == CHOOSE x \in S : \A y \in S \ {x} : Less(x, y)
         IN <<m>> \o Sorted(S \ {m})

Range(s) == { s[i] : i \in 1..Len(s) }

\* line 33: sorted(set(symbols)) raises TypeError on an unhashable element,
\* and on two elements that "<" cannot compare
SortedSetRaises(items) ==
    \/ Nested \in Range(items)
    \/ \E x, y \in Range(items) : x.t # y.t

\* lines 27-37; the result is the returned list, or the exception that
\* leaves the function: open() is outside the try
FileError == [raised |-> TRUE, list |-> <<>>]
Returned(l) == [raised |-> FALSE, list |-> l]

\* the list of the file returned as it was read
load_list_as_read(file) ==
    IF file.state = "missing"
    THEN Returned(get_default_derivative_symbols)
    ELSE IF file.state = "unreadable"
    THEN FileError
    ELSE IF file.state = "malformed"
    THEN Returned(get_default_derivative_symbols)
    ELSE IF file.value.kind = "list"
    THEN IF SortedSetRaises(file.value.items)
         THEN Returned(get_default_derivative_symbols)
         ELSE Returned(file.value.items)
    ELSE Returned(get_default_derivative_symbols)

\* the default list sorted like the list of the file
load_sorted_default(file) ==
    IF file.state = "unreadable"
    THEN FileError
    ELSE IF /\ file.state = "parsed"
            /\ file.value.kind = "list"
            /\ ~SortedSetRaises(file.value.items)
    THEN Returned(Sorted(Range(file.value.items)))
    ELSE Returned(Sorted(Range(get_default_derivative_symbols)))

load_nse_derivative_symbols(file) ==
    IF file.state = "missing"
    THEN Returned(get_default_derivative_symbols)
    ELSE IF file.state = "unreadable"
    THEN FileError
    ELSE IF file.state = "malformed"
    THEN Returned(get_default_derivative_symbols)
    ELSE IF file.value.kind = "list"
    THEN IF SortedSetRaises(file.value.items)
         THEN Returned(get_default_derivative_symbols)
         ELSE Returned(Sorted(Range(file.value.items)))
    ELSE Returned(get_default_derivative_symbols)

\* the states of NSE_SYMBOLS_FILE
Elements == { JsonStr(<<97>>), JsonStr(<<98>>), JsonInt(1), Nested }
Lists == UNION { [1..n -> Elements] : n \in 0..MaxListLen }
SymbolFiles ==
    { [state |-> "missing"], [state |-> "unreadable"],
      [state |-> "malformed"],
      [state |-> "parsed", value |-> [kind |-> "object"]],
      [state |-> "parsed", value |-> [kind |-> "number"]] }
    \cup { [state |-> "parsed", value |-> [kind |-> "list", items |-> l]]
           : l \in Lists }

\* index() has not run
NotCalled == [called |-> FALSE]

\* ------------------------------------------------------- expiry dates
\* an element of records.expiryDates: the string "<d>-<b>-<Y>", or a value
\* that is not a string
ExpiryText(d, b, y) == [t |-> "str", d |-> d, b |-> b, Y |-> y]
NotAString == [t |-> "int", d |-> 0, b |-> "", Y |-> 0]

\* %b: the abbreviated month names; 0 for any other word
MonthNumber(b) ==
    CASE b = "Jan" -> 1 [] b = "Feb" -> 2 [] b = "Mar" -> 3 [] b = "Apr" -> 4
      [] b = "May" -> 5 [] b = "Jun" -> 6 [] b = "Jul" -> 7 [] b = "Aug" -> 8
      [] b = "Sep" -> 9 [] b = "Oct" -> 10 [] b = "Nov" -> 11
      [] b = "Dec" -> 12 [] OTHER -> 0

IsLeap(y) == (y % 4 = 0 /\ y % 100 # 0) \/ y % 400 = 0

DaysIn(m, y) ==
    IF m = 2 THEN (IF IsLeap(y) THEN 29 ELSE 28)
    ELSE IF m \in {4, 6, 9, 11} THEN 30 ELSE 31

StrptimeError == [raised |-> TRUE, year |-> 0, month |-> 0, day |-> 0]

\* line 124: datetime.strptime(x, "%d-%b-%Y"): the date, or TypeError for a
\* value that is not a string, ValueError for a text that is not a date
strptime(x) ==
    IF x.t # "str" THEN StrptimeError
    ELSE IF MonthNumber(x.b) = 0 THEN StrptimeError
    ELSE IF x.d < 1 \/ x.d > DaysIn(MonthNumber(x.b), x.Y) THEN StrptimeError
    ELSE [raised |-> FALSE, year |-> x.Y, month |-> MonthNumber(x.b),
          day |-> x.d]

\* a <= b on two datetimes
DateLE(a, b) ==
    \/ a.year < b.year
    \/ a.year = b.year /\ a.month < b.month
    \/ a.year = b.year /\ a.month = b.month /\ a.day <= b.day

\* x placed in a list sorted by date, behind the elements not later than it
RECURSIVE InsertByDate(_, _)
InsertByDate(x, l) ==
    IF l = <<>> THEN <<x>>
    ELSE IF DateLE(strptime(Head(l)), strptime(x))
         THEN <<Head(l)>> \o InsertByDate(x, Tail(l))
         ELSE <<x>> \o l

\* lines 122-125: sorted(raw_expiries, key=...) of a list whose elements all
\* parse: a stable sort by date
RECURSIVE SortedByDate(_)
SortedByDate(l) ==
    IF l = <<>> THEN <<>>
    ELSE InsertByDate(l[Len(l)], SortedByDate(SubSeq(l, 1, Len(l) - 1)))

\* the answers of nse_optionchain_scrapper to get_expiries
ExpiryElements ==
    { ExpiryText(30, "Jan", 2025), ExpiryText(27, "Feb", 2025),
      ExpiryText(26, "Dec", 2024), ExpiryText(30, "Feb", 2025),
      NotAString }
ExpiryLists == UNION { [1..n -> ExpiryElements] : n \in 0..MaxExpiries }
ScrapperRaised == [kind |-> "raised"]
ExpiryAnswers ==
    { ScrapperRaised,
      [kind |-> "dict", has_records |-> FALSE, has_expiryDates |-> FALSE,
       expiryDates |-> <<>>],
      [kind |-> "dict", has_records |-> TRUE, has_expiryDates |-> FALSE,
       expiryDates |-> <<>>] }
    \cup { [kind |-> "dict", has_records |-> TRUE, has_expiryDates |-> TRUE,
            expiryDates |-> l] : l \in ExpiryLists }

\* line 129: jsonify({"expiries": sorted_expiries})
Jsonify(l) == [status |-> 200, expiries |-> l]

\* the elements that do not parse left out of the sorted list
RECURSIVE Parseable(_)
Parseable(l) ==
    IF l = <<>> THEN <<>>
    ELSE IF strptime(Head(l)).raised THEN Parseable(Tail(l))
    ELSE <<Head(l)>> \o Parseable(Tail(l))

get_expiries_skipping(answer) ==
    IF answer.kind = "raised" THEN Jsonify(<<>>)
    ELSE IF ~answer.has_records \/ ~answer.has_expiryDates THEN Jsonify(<<>>)
    ELSE Jsonify(SortedByDate(Parseable(answer.expiryDates)))

\* lines 117-129: the response of get_expiries to an answer of the provider
get_expiries(answer) ==
    IF answer.kind = "raised" THEN Jsonify(<<>>)
    ELSE IF ~answer.has_records \/ ~answer.has_expiryDates THEN Jsonify(<<>>)
    ELSE IF \E i \in 1..Len(answer.expiryDates) :
               strptime(answer.expiryDates[i]).raised
    THEN Jsonify(<<>>)
    ELSE Jsonify(SortedByDate(answer.expiryDates))

\* ---------------------------------------------------- the Gemini stream
\* a part of chunk.candidates[0].content.parts; has_text: hasattr(part, "text")
TextPart(t) == [has_text |-> TRUE, text |-> t]
OtherPart == [has_text |-> FALSE, text |-> ""]

\* the chunks a response stream may yield: the parts of candidates[0]
\* (<<>>: no candidates, or no parts)
Chunks ==
    { <<>>,
      <<TextPart("Hello ")>>,
      <<TextPart("world")>>,
      <<TextPart("Hello "), TextPart("world")>>,
      <<OtherPart, TextPart("world")>> }

\* the chunk of the streams relayed while two requests run concurrently
OneChunk == { <<TextPart("Hello ")>> }

GeminiErrors == {"quota exceeded"}

\* line 102: f"data: {part.text}\n\n"
FragmentEvent(t) == "data: " \o t \o "\n\n"
\* line 103
EndEvent == "data: [END]\n\n"
\* line 105: f"data: Error analyzing with Gemini: {e}\n\n"
GeminiErrorEvent(e) == "data: Error analyzing with Gemini: " \o e \o "\n\n"
\* line 138
FetchErrorEvent == "data: Error fetching data\n\n"

\* only the first part of a chunk relayed
ChunkEventsFirstPart(parts) ==
    IF parts = <<>> THEN <<>>
    ELSE IF Head(parts).has_text
         THEN <<FragmentEvent(Head(parts).text)>>
         ELSE <<>>

\* lines 99-102: the events one chunk gives rise to
RECURSIVE ChunkEvents(_)
ChunkEvents(parts) ==
    IF parts = <<>> THEN <<>>
    ELSE (IF Head(parts).has_text
          THEN <<FragmentEvent(Head(parts).text)>>
          ELSE <<>>) \o ChunkEvents(Tail(parts))

\* ------------------------------------------------------------ file writes
Hole == [of |-> None, block |-> 0]

\* open(file_path, "w"): create or truncate; the modification time is set
Truncate(t) == [exists |-> TRUE, content |-> <<>>, mtime |-> t]

\* f.write of one block at the writer's own position off
WriteBlock(f, off, cell, t) ==
    LET padded == IF Len(f.content) < off
                  THEN f.content \o [i \in 1..(off - Len(f.content)) |-> Hole]
                  ELSE f.content
        len == IF Len(padded) > off + 1 THEN Len(padded) ELSE off + 1
    IN [exists |-> TRUE,
        content |-> [i \in 1..len |-> IF i = off + 1 THEN cell ELSE padded[i]],
        mtime |-> t]

\* ------------------------------------------------------------------ Init
IdleInit ==
    /\ pc = [p \in Procs |-> "idle"]
    /\ symbol = [p \in Procs |-> ""]
    /\ expiry_date = [p \in Procs |-> ""]
    /\ current_time = [p \in Procs |-> 0]
    /\ last_modified = [p \in Procs |-> NoMtime]
    /\ options_data = [p \in Procs |-> None]
    /\ offset = [p \in Procs |-> 0]
    /\ nse_calls = [p \in Procs |-> 0]
    /\ gemini_calls = [p \in Procs |-> 0]
    /\ provided = [p \in Procs |-> <<>>]
    /\ events = [p \in Procs |-> <<>>]
    /\ raised = [p \in Procs |-> FALSE]

\* line 15: os.makedirs(DATA_DIR, exist_ok=True); the cache starts empty
Init ==
    /\ clock = 0
    /\ files = [f \in Paths |-> NoFile]
    /\ IdleInit
    /\ symbols_file = [state |-> "missing"]
    /\ index_symbols = NotCalled
    /\ expiries_data = NotCalled
    /\ expiries_reply = NotCalled
    /\ written_for = [f \in Paths |-> NoKey]

\* the symbol registry alone, for every state of the symbol file
InitSymbols ==
    /\ clock = 0
    /\ files = [f \in Paths |-> NoFile]
    /\ IdleInit
    /\ symbols_file \in SymbolFiles
    /\ index_symbols = NotCalled
    /\ expiries_data = NotCalled
    /\ expiries_reply = NotCalled
    /\ written_for = [f \in Paths |-> NoKey]

\* --------------------------------------------------------------- actions
\* time passes
Tick(d) ==
    /\ clock + d <= MaxTime
    /\ clock' = clock + d
    /\ UNCHANGED <<files, pc, symbol, expiry_date, current_time,
                   last_modified, options_data, offset, nse_calls,
                   gemini_calls, provided, events, raised>>
    /\ UNCHANGED <<registryVars, expiryVars, historyVars>>

\* lines 133-136 and 45-46: a POST /stream_analysis arrives and
\* fetch_and_cache_options_data is entered
Request(p, s, e) ==
    /\ pc[p] = "idle"
    /\ pc' = [pc EXCEPT ![p] = "check"]
    /\ symbol' = [symbol EXCEPT ![p] = s]
    /\ expiry_date' = [expiry_date EXCEPT ![p] = e]
    /\ current_time' = [current_time EXCEPT ![p] = clock]
    /\ UNCHANGED <<clock, files, last_modified, options_data, offset,
                   nse_calls, gemini_calls, provided, events, raised>>
    /\ UNCHANGED <<registryVars, expiryVars, historyVars>>

\* a hit that refreshes the modification time of the file it reads
CheckCacheTouches(p) ==
    /\ pc[p] = "check"
    /\ LET f == files[Path(p)]
           hit == f.exists /\ IsFresh(current_time[p], f.mtime)
           loaded == JsonLoad(f.content)
       IN /\ last_modified' = [last_modified EXCEPT
                                  ![p] = IF f.exists THEN f.mtime ELSE NoMtime]
          /\ IF hit
             THEN /\ files' = [files EXCEPT ![Path(p)].mtime = clock]
                  /\ IF loaded = JSONDecodeError
                     THEN /\ raised' = [raised EXCEPT ![p] = TRUE]
                          /\ pc' = [pc EXCEPT ![p] = "done"]
                          /\ UNCHANGED options_data
                     ELSE /\ options_data' = [options_data EXCEPT
                                                 ![p] = loaded]
                          /\ pc' = [pc EXCEPT ![p] = "fetched"]
                          /\ UNCHANGED raised
             ELSE /\ pc' = [pc EXCEPT ![p] = "fetch"]
                  /\ UNCHANGED <<files, options_data, raised>>
    /\ UNCHANGED <<clock, symbol, expiry_date, current_time, offset,
                   nse_calls, gemini_calls, provided, events>>
    /\ UNCHANGED <<registryVars, expiryVars, historyVars>>

\* lines 48-52: the freshness test and, when it passes, the read of the file;
\* a JSONDecodeError of json.load is outside every try and leaves the handler
CheckCache(p) ==
    /\ pc[p] = "check"
    /\ LET f == files[Path(p)]
           hit == f.exists /\ IsFresh(current_time[p], f.mtime)
           loaded == JsonLoad(f.content)
       IN /\ last_modified' = [last_modified EXCEPT
                                  ![p] = IF f.exists THEN f.mtime ELSE NoMtime]
          /\ IF hit
             THEN IF loaded = JSONDecodeError
                  THEN /\ raised' = [raised EXCEPT ![p] = TRUE]
                       /\ pc' = [pc EXCEPT ![p] = "done"]
                       /\ UNCHANGED options_data
                  ELSE /\ options_data' = [options_data EXCEPT ![p] = loaded]
                       /\ pc' = [pc EXCEPT ![p] = "fetched"]
                       /\ UNCHANGED raised
             ELSE /\ pc' = [pc EXCEPT ![p] = "fetch"]
                  /\ UNCHANGED <<options_data, raised>>
    /\ UNCHANGED <<clock, files, symbol, expiry_date, current_time, offset,
                   nse_calls, gemini_calls, provided, events>>
    /\ UNCHANGED <<registryVars, expiryVars, historyVars>>

\* the answer persisted only when the key has no file yet
ScrapperReturnsKeepsExisting(p, n) ==
    /\ pc[p] = "fetch"
    /\ nse_calls' = [nse_calls EXCEPT ![p] = @ + 1]
    /\ options_data' = [options_data EXCEPT
                           ![p] = Stamp(ScrapperData(symbol[p], n),
                                        current_time[p])]
    /\ pc' = [pc EXCEPT
                 ![p] = IF files[Path(p)].exists THEN "fetched" ELSE "open"]
    /\ UNCHANGED <<clock, files, symbol, expiry_date, current_time,
                   last_modified, offset, gemini_calls, provided, events,
                   raised>>
    /\ UNCHANGED <<registryVars, expiryVars, historyVars>>

\* lines 55-56: the provider answers; the answer is stamped
ScrapperReturns(p, n) ==
    /\ pc[p] = "fetch"
    /\ nse_calls' = [nse_calls EXCEPT ![p] = @ + 1]
    /\ options_data' = [options_data EXCEPT
                           ![p] = Stamp(ScrapperData(symbol[p], n),
                                        current_time[p])]
    /\ pc' = [pc EXCEPT ![p] = "open"]
    /\ UNCHANGED <<clock, files, symbol, expiry_date, current_time,
                   last_modified, offset, gemini_calls, provided, events,
                   raised>>
    /\ UNCHANGED <<registryVars, expiryVars, historyVars>>

\* the file opened for writing before the provider is called
ScrapperRaisesAfterOpen(p) ==
    /\ pc[p] = "fetch"
    /\ nse_calls' = [nse_calls EXCEPT ![p] = @ + 1]
    /\ options_data' = [options_data EXCEPT ![p] = None]
    /\ files' = [files EXCEPT ![Path(p)] = Truncate(clock)]
    /\ pc' = [pc EXCEPT ![p] = "fetched"]
    /\ UNCHANGED <<clock, symbol, expiry_date, current_time,
                   last_modified, offset, gemini_calls, provided, events,
                   raised>>
    /\ UNCHANGED <<registryVars, expiryVars, historyVars>>

\* lines 55, 60-62: the provider raises; the function returns None
ScrapperRaises(p) ==
    /\ pc[p] = "fetch"
    /\ nse_calls' = [nse_calls EXCEPT ![p] = @ + 1]
    /\ options_data' = [options_data EXCEPT ![p] = None]
    /\ pc' = [pc EXCEPT ![p] = "fetched"]
    /\ UNCHANGED <<clock, files, symbol, expiry_date, current_time,
                   last_modified, offset, gemini_calls, provided, events,
                   raised>>
    /\ UNCHANGED <<registryVars, expiryVars, historyVars>>

\* line 57: open(file_path, "w")
OpenForWrite(p) ==
    /\ pc[p] = "open"
    /\ files' = [files EXCEPT ![Path(p)] = Truncate(clock)]
    /\ offset' = [offset EXCEPT ![p] = 0]
    /\ pc' = [pc EXCEPT ![p] = "dump"]
    /\ UNCHANGED <<clock, symbol, expiry_date, current_time, last_modified,
                   options_data, nse_calls, gemini_calls, provided, events,
                   raised>>
    /\ written_for' = [written_for EXCEPT
                          ![Path(p)] = <<symbol[p], expiry_date[p]>>]
    /\ UNCHANGED <<registryVars, expiryVars>>

\* lines 58-59: json.dump writes the next block; after the last one the file
\* is closed and the snapshot returned
DumpBlock(p) ==
    /\ pc[p] = "dump"
    /\ LET text == JsonDump(options_data[p])
       IN /\ files' = [files EXCEPT
                          ![Path(p)] = WriteBlock(@, offset[p],
                                                  text[offset[p] + 1], clock)]
          /\ offset' = [offset EXCEPT ![p] = @ + 1]
          /\ pc' = [pc EXCEPT
                       ![p] = IF offset[p] + 1 = Len(text)
                              THEN "fetched" ELSE "dump"]
    /\ UNCHANGED <<clock, symbol, expiry_date, current_time, last_modified,
                   options_data, nse_calls, gemini_calls, provided, events,
                   raised>>
    /\ UNCHANGED <<registryVars, expiryVars, historyVars>>

\* the snapshot handed to the streamer without the test of line 137
RespondUnchecked(p) ==
    /\ pc[p] = "fetched"
    /\ pc' = [pc EXCEPT ![p] = "stream"]
    /\ UNCHANGED <<clock, files, symbol, expiry_date, current_time,
                   last_modified, options_data, offset, nse_calls,
                   gemini_calls, provided, events, raised>>
    /\ UNCHANGED <<registryVars, expiryVars, historyVars>>

\* lines 137-140: the handler answers with the error event, or with the
\* generator of stream_analysis_with_gemini
Respond(p) ==
    /\ pc[p] = "fetched"
    /\ IF options_data[p] = None
       THEN /\ events' = [events EXCEPT ![p] = <<FetchErrorEvent>>]
            /\ pc' = [pc EXCEPT ![p] = "done"]
       ELSE /\ pc' = [pc EXCEPT ![p] = "stream"]
            /\ UNCHANGED events
    /\ UNCHANGED <<clock, files, symbol, expiry_date, current_time,
                   last_modified, options_data, offset, nse_calls,
                   gemini_calls, provided, raised>>
    /\ UNCHANGED <<registryVars, expiryVars, historyVars>>

\* line 97: model.generate_content(prompt, stream=True) returns the stream
GenerateContent(p) ==
    /\ pc[p] = "stream"
    /\ gemini_calls' = [gemini_calls EXCEPT ![p] = @ + 1]
    /\ pc' = [pc EXCEPT ![p] = "relay"]
    /\ UNCHANGED <<clock, files, symbol, expiry_date, current_time,
                   last_modified, options_data, offset, nse_calls, provided,
                   events, raised>>
    /\ UNCHANGED <<registryVars, expiryVars, historyVars>>

\* lines 98-102: the stream yields a chunk; its text parts are emitted
RelayChunk(p, chunk) ==
    /\ pc[p] = "relay"
    /\ Len(provided[p]) < MaxChunks
    /\ provided' = [provided EXCEPT ![p] = Append(@, chunk)]
    /\ events' = [events EXCEPT ![p] = @ \o ChunkEvents(chunk)]
    /\ UNCHANGED <<clock, files, pc, symbol, expiry_date, current_time,
                   last_modified, options_data, offset, nse_calls,
                   gemini_calls, raised>>
    /\ UNCHANGED <<registryVars, expiryVars, historyVars>>

\* line 103: the stream is exhausted
StreamEnds(p) ==
    /\ pc[p] = "relay"
    /\ events' = [events EXCEPT ![p] = Append(@, EndEvent)]
    /\ pc' = [pc EXCEPT ![p] = "done"]
    /\ UNCHANGED <<clock, files, symbol, expiry_date, current_time,
                   last_modified, options_data, offset, nse_calls,
                   gemini_calls, provided, raised>>
    /\ UNCHANGED <<registryVars, expiryVars, historyVars>>

\* the error reported and the iteration resumed
GeminiRaisesResumes(p, e) ==
    /\ pc[p] \in {"stream", "relay"}
    /\ gemini_calls' = [gemini_calls EXCEPT
                           ![p] = IF pc[p] = "stream" THEN @ + 1 ELSE @]
    /\ events' = [events EXCEPT ![p] = Append(@, GeminiErrorEvent(e))]
    /\ pc' = [pc EXCEPT ![p] = "relay"]
    /\ UNCHANGED <<clock, files, symbol, expiry_date, current_time,
                   last_modified, options_data, offset, nse_calls, provided,
                   raised>>
    /\ UNCHANGED <<registryVars, expiryVars, historyVars>>

\* lines 97-98, 104-105: generate_content or the iteration raises
GeminiRaises(p, e) ==
    /\ pc[p] \in {"stream", "relay"}
    /\ gemini_calls' = [gemini_calls EXCEPT
                           ![p] = IF pc[p] = "stream" THEN @ + 1 ELSE @]
    /\ events' = [events EXCEPT ![p] = Append(@, GeminiErrorEvent(e))]
    /\ pc' = [pc EXCEPT ![p] = "done"]
    /\ UNCHANGED <<clock, files, symbol, expiry_date, current_time,
                   last_modified, options_data, offset, nse_calls, provided,
                   raised>>
    /\ UNCHANGED <<registryVars, expiryVars, historyVars>>

\* the response is complete; the handler's locals are gone
Finish(p) ==
    /\ pc[p] = "done"
    /\ pc' = [pc EXCEPT ![p] = "idle"]
    /\ symbol' = [symbol EXCEPT ![p] = ""]
    /\ expiry_date' = [expiry_date EXCEPT ![p] = ""]
    /\ current_time' = [current_time EXCEPT ![p] = 0]
    /\ last_modified' = [last_modified EXCEPT ![p] = NoMtime]
    /\ options_data' = [options_data EXCEPT ![p] = None]
    /\ offset' = [offset EXCEPT ![p] = 0]
    /\ nse_calls' = [nse_calls EXCEPT ![p] = 0]
    /\ gemini_calls' = [gemini_calls EXCEPT ![p] = 0]
    /\ provided' = [provided EXCEPT ![p] = <<>>]
    /\ events' = [events EXCEPT ![p] = <<>>]
    /\ raised' = [raised EXCEPT ![p] = FALSE]
    /\ UNCHANGED <<clock, files>>
    /\ UNCHANGED <<registryVars, expiryVars, historyVars>>

\* lines 109-112, 39-40: GET / calls get_derivative_symbols()
Index ==
    /\ index_symbols = NotCalled
    /\ index_symbols' = load_nse_derivative_symbols(symbols_file)
    /\ UNCHANGED <<symbols_file, cacheVars, expiryVars, historyVars>>

\* the page has been answered
IndexDone ==
    /\ index_symbols # NotCalled
    /\ index_symbols' = NotCalled
    /\ UNCHANGED <<symbols_file, cacheVars, expiryVars, historyVars>>

\* lines 116-118: a POST /get_expiries arrives and the provider is called
ExpiriesScrapper(answer) ==
    /\ expiries_data = NotCalled
    /\ expiries_data' = answer
    /\ UNCHANGED <<expiries_reply, cacheVars, registryVars, historyVars>>

\* lines 119-129: the expiry dates are extracted, sorted and returned
ExpiriesReply ==
    /\ expiries_data # NotCalled
    /\ expiries_reply = NotCalled
    /\ expiries_reply' = get_expiries(expiries_data)
    /\ UNCHANGED <<expiries_data, cacheVars, registryVars, historyVars>>

\* the response has been sent
ExpiriesDone ==
    /\ expiries_reply # NotCalled
    /\ expiries_data' = NotCalled
    /\ expiries_reply' = NotCalled
    /\ UNCHANGED <<cacheVars, registryVars, historyVars>>

Step(p, reqs, chunks) ==
    \/ \E r \in reqs : Request(p, r[1], r[2])
    \/ CheckCache(p)
    \/ \E n \in Payloads : ScrapperReturns(p, n)
    \/ ScrapperRaises(p)
    \/ OpenForWrite(p)
    \/ DumpBlock(p)
    \/ Respond(p)
    \/ GenerateContent(p)
    \/ \E c \in chunks : RelayChunk(p, c)
    \/ StreamEnds(p)
    \/ \E e \in GeminiErrors : GeminiRaises(p, e)
    \/ Finish(p)

\* requests served one at a time
Next ==
    \/ \E d \in Deltas : Tick(d)
    \/ \E p \in SeqProcs : Step(p, Requests, Chunks)

Spec == Init /\ [][Next]_vars

\* requests served by concurrent threads
NextConc ==
    \/ \E d \in Deltas : Tick(d)
    \/ \E p \in Procs : Step(p, SameKeyRequests, OneChunk)

SpecConc == Init /\ [][NextConc]_vars
\* POST /get_expiries alone
NextExpiries ==
    \/ \E a \in ExpiryAnswers : ExpiriesScrapper(a)
    \/ ExpiriesReply
    \/ ExpiriesDone

SpecExpiries == Init /\ [][NextExpiries]_vars

\* GET / alone
NextSymbols == Index \/ IndexDone

SpecSymbols == InitSymbols /\ [][NextSymbols]_vars

\* ------------------------------------------------------------- properties
\* fetch_and_cache_options_data has returned to the handler
Returned_(p) == pc[p] = "fetched"

\* the age of the entry the call found: current time minus last-modified
Age(p) == current_time[p] - last_modified[p]
FoundEntry(p) == last_modified[p] # NoMtime

\* C1: a call that finds an entry younger than 30 minutes returns the
\* stored contents, leaves the file as it found it and makes no provider
\* call; a call that finds an entry older than 30 minutes calls the provider
C1_FreshHitStaleRefetch ==
    \A p \in Procs :
        (Returned_(p) /\ FoundEntry(p)) =>
            /\ Age(p) < 30 =>
                  /\ nse_calls[p] = 0
                  /\ files[Path(p)].mtime = last_modified[p]
                  /\ options_data[p] # None
                  /\ files[Path(p)].content = JsonDump(options_data[p])
            /\ Age(p) > 30 => nse_calls[p] = 1

\* a read at T+29min has been served from the entry written at T
C1_Witness ==
    \E p \in Procs :
        /\ Returned_(p) /\ FoundEntry(p) /\ Age(p) = 29
        /\ nse_calls[p] = 0
        /\ options_data[p] # None

\* C2: when the provider raises, the call returns None, no exception
\* leaves it, and no cache file is created or changed, neither by that
\* step nor by the steps of the call before it
C2_ProviderFailureWritesNothing ==
    [][\A p \in Procs :
          /\ pc[p] = "check" => files' = files
          /\ (pc[p] = "fetch" /\ pc'[p] = "fetched") =>
                /\ options_data'[p] = None
                /\ ~raised'[p]
                /\ files' = files]_vars

\* the provider has raised on a key whose stale entry is still stored
C2_Witness ==
    \E p \in Procs :
        /\ Returned_(p) /\ options_data[p] = None /\ nse_calls[p] = 1
        /\ FoundEntry(p) /\ Age(p) >= 30
        /\ files[Path(p)].mtime = last_modified[p]
        /\ JsonLoad(files[Path(p)].content) # JSONDecodeError

\* the file of the call's key holds the snapshot fetched by this call
HoldsNewSnapshot(p) ==
    LET stored == JsonLoad(files[Path(p)].content)
    IN /\ stored # JSONDecodeError
       /\ stored.fetch_timestamp = current_time[p]
       /\ files[Path(p)].mtime >= current_time[p]

\* C3 as stated: every call on a key whose entry is older than 30 minutes
\* leaves the file holding a newly fetched snapshot when it returns
C3_StaleAlwaysOverwritten ==
    \A p \in Procs :
        (Returned_(p) /\ FoundEntry(p) /\ Age(p) > 30) => HoldsNewSnapshot(p)

\* C3 amended: a call on a key whose entry is older than 30 minutes calls
\* the provider; when the provider answers, the file holds the new snapshot
\* and that snapshot is returned; when the provider raises, the stale file
\* is left as it was
C3_StaleOverwrittenOnSuccess ==
    \A p \in Procs :
        (Returned_(p) /\ FoundEntry(p) /\ Age(p) > 30) =>
            /\ nse_calls[p] = 1
            /\ options_data[p] # None =>
                  /\ HoldsNewSnapshot(p)
                  /\ files[Path(p)].content = JsonDump(options_data[p])
            /\ options_data[p] = None =>
                  files[Path(p)].mtime = last_modified[p]

\* a stale entry has been replaced by the snapshot of a new fetch
C3_Witness ==
    \E p \in Procs :
        /\ Returned_(p) /\ FoundEntry(p) /\ Age(p) > 30
        /\ options_data[p] # None
        /\ HoldsNewSnapshot(p)

\* the text parts of a chunk, and of a sequence of chunks, in order
RECURSIVE TextsOf(_)
TextsOf(parts) ==
    IF parts = <<>> THEN <<>>
    ELSE IF Head(parts).has_text
         THEN <<Head(parts).text>> \o TextsOf(Tail(parts))
         ELSE TextsOf(Tail(parts))

RECURSIVE Fragments(_)
Fragments(chunks) ==
    IF chunks = <<>> THEN <<>>
    ELSE TextsOf(Head(chunks)) \o Fragments(Tail(chunks))

\* one event "data: <f>" and a blank line for each fragment
EventsOf(fs) == [i \in 1..Len(fs) |-> "data: " \o fs[i] \o "\n\n"]

IsEnd(ev) == ev = "data: [END]\n\n"
IsGeminiError(ev) ==
    \E e \in GeminiErrors :
        ev = "data: Error analyzing with Gemini: " \o e \o "\n\n"
IsFetchError(ev) == ev = "data: Error fetching data\n\n"

Completed(p) == pc[p] = "done"

\* C4: a stream that yields n text fragments and ends without error gives
\* exactly n + 1 events: the fragments in the provider's order, then [END]
C4_FragmentsThenEnd ==
    \A p \in Procs :
        (Completed(p) /\ \E i \in 1..Len(events[p]) : IsEnd(events[p][i])) =>
            LET fs == Fragments(provided[p])
            IN /\ Len(events[p]) = Len(fs) + 1
               /\ events[p] = EventsOf(fs) \o <<"data: [END]\n\n">>

\* the stream "Hello ", "world" has been relayed as three events
C4_Witness ==
    \E p \in Procs :
        /\ Completed(p)
        /\ Fragments(provided[p]) = <<"Hello ", "world">>
        /\ events[p] = <<"data: Hello \n\n", "data: world\n\n",
                         "data: [END]\n\n">>

\* C5: a stream the provider was called for ends with exactly one terminal
\* event, [END] or the Gemini error event, and no terminal event comes
\* before the last event; when it is the error event, the events before it
\* are the fragments relayed until then
C5_OneTerminalEvent ==
    \A p \in Procs :
        /\ pc[p] \in {"stream", "relay"} =>
              /\ events[p] = EventsOf(Fragments(provided[p]))
              /\ \A i \in 1..Len(events[p]) :
                    ~IsEnd(events[p][i]) /\ ~IsGeminiError(events[p][i])
        /\ (Completed(p) /\ gemini_calls[p] = 1) =>
              LET n == Len(events[p])
              IN /\ n >= 1
                 /\ IsEnd(events[p][n]) \/ IsGeminiError(events[p][n])
                 /\ SubSeq(events[p], 1, n - 1)
                       = EventsOf(Fragments(provided[p]))
                 /\ \A i \in 1..(n - 1) :
                       ~IsEnd(events[p][i]) /\ ~IsGeminiError(events[p][i])

\* the provider has raised after a fragment had been relayed
C5_Witness ==
    \E p \in Procs :
        /\ Completed(p)
        /\ Len(events[p]) >= 2
        /\ IsGeminiError(events[p][Len(events[p])])
        /\ Len(Fragments(provided[p])) = Len(events[p]) - 1

\* C6: when the cache returned None the response is the single event
\* "data: Error fetching data" and Gemini was never called; when it
\* returned a snapshot the response is the streamer's event sequence
C6_AbsentGivesOneErrorEvent ==
    \A p \in Procs :
        /\ pc[p] \in {"stream", "relay"} => options_data[p] # None
        /\ (Completed(p) /\ ~raised[p]) =>
              IF options_data[p] = None
              THEN /\ events[p] = <<"data: Error fetching data\n\n">>
                   /\ gemini_calls[p] = 0
                   /\ provided[p] = <<>>
              ELSE /\ gemini_calls[p] = 1
                   /\ \A i \in 1..Len(events[p]) : ~IsFetchError(events[p][i])
                   /\ SubSeq(events[p], 1, Len(events[p]) - 1)
                         = EventsOf(Fragments(provided[p]))

\* the provider raised and the request was answered by the error event
C6_Witness ==
    \E p \in Procs :
        /\ Completed(p) /\ options_data[p] = None /\ nse_calls[p] = 1
        /\ events[p] = <<"data: Error fetching data\n\n">>

\* C7: a stored entry changes only by the write of a call that fetched
\* from the provider: a step of the test-and-read of the cache changes no
\* file, neither its contents nor its last-modified time
C7_HitLeavesFilesAlone ==
    [][/\ \A p \in Procs : pc[p] = "check" => files' = files
       /\ \A f \in Paths :
             files'[f] # files[f] =>
                \E p \in Procs : /\ pc[p] \in {"open", "dump"}
                                 /\ Path(p) = f
                                 /\ nse_calls[p] = 1]_vars

\* an entry has been read some time after it was written, and its
\* last-modified time is still the one the read found
C7_Witness ==
    \E p \in Procs :
        /\ Returned_(p) /\ FoundEntry(p) /\ nse_calls[p] = 0
        /\ Age(p) > 0
        /\ files[Path(p)].mtime = last_modified[p]

\* C8: no exception leaves a /stream_analysis request, and a completed
\* response ends with [END] or with an error event
C8_NoExceptionLeavesHandler ==
    \A p \in Procs :
        /\ ~raised[p]
        /\ Completed(p) =>
              /\ Len(events[p]) >= 1
              /\ LET last == events[p][Len(events[p])]
                 IN IsEnd(last) \/ IsGeminiError(last) \/ IsFetchError(last)

\* the default symbols of the claim, as code points
DefaultNames ==
    { <<78, 73, 70, 84, 89>>, <<66, 65, 78, 75, 78, 73, 70, 84, 89>>,
      <<70, 73, 78, 78, 73, 70, 84, 89>>,
      <<77, 73, 68, 67, 80, 78, 73, 70, 84, 89>>,
      <<82, 69, 76, 73, 65, 78, 67, 69>>, <<84, 67, 83>>,
      <<72, 68, 70, 67, 66, 65, 78, 75>>,
      <<73, 67, 73, 67, 73, 66, 65, 78, 75>>, <<73, 78, 70, 89>>,
      <<83, 66, 73, 78>>, <<76, 84>> }

IsDefaultList(l) ==
    /\ Len(l) = 11
    /\ { l[i].v : i \in 1..Len(l) } = DefaultNames
    /\ \A i \in 1..Len(l) : l[i].t = "str"

\* index() has called get_derivative_symbols()
Called == index_symbols # NotCalled

\* C9: get_derivative_symbols never raises, and returns the default list
\* when the file is missing, unreadable, malformed or not a list
C9_GetSymbolsNeverFails ==
    Called =>
        /\ ~index_symbols.raised
        /\ (\/ symbols_file.state \in {"missing", "unreadable", "malformed"}
            \/ symbols_file.value.kind # "list")
              => IsDefaultList(index_symbols.list)

\* the list is in ascending lexicographic order
Ascending(l) ==
    \A i \in 1..(Len(l) - 1) : StrLess(l[i].v, l[i + 1].v)

\* C10 as stated: with no symbol file the result is the 11 default symbols
\* in lexicographic order
C10_DefaultSorted ==
    (Called /\ symbols_file.state = "missing") =>
        /\ ~index_symbols.raised
        /\ IsDefaultList(index_symbols.list)
        /\ Ascending(index_symbols.list)

\* C10 amended: with no symbol file the result is the 11 default symbols
\* in the order of the source, the four indices first: NIFTY, BANKNIFTY,
\* FINNIFTY, MIDCPNIFTY, ..., SBIN, LT
C10_DefaultInSourceOrder ==
    (Called /\ symbols_file.state = "missing") =>
        /\ ~index_symbols.raised
        /\ IsDefaultList(index_symbols.list)
        /\ index_symbols.list[1].v = <<78, 73, 70, 84, 89>>
        /\ index_symbols.list[2].v = <<66, 65, 78, 75, 78, 73, 70, 84, 89>>
        /\ index_symbols.list[3].v = <<70, 73, 78, 78, 73, 70, 84, 89>>
        /\ index_symbols.list[4].v = <<77, 73, 68, 67, 80, 78, 73, 70, 84, 89>>
        /\ index_symbols.list[10].v = <<83, 66, 73, 78>>
        /\ index_symbols.list[11].v = <<76, 84>>
        /\ ~Ascending(index_symbols.list)

\* get_derivative_symbols has run with no symbol file
C10_Witness ==
    /\ Called
    /\ symbols_file.state = "missing"
    /\ Len(index_symbols.list) = 11

\* the symbol file parsed to a list whose elements are all strings
ListOfStrings ==
    /\ symbols_file.state = "parsed"
    /\ symbols_file.value.kind = "list"
    /\ \A i \in 1..Len(symbols_file.value.items) :
          symbols_file.value.items[i].t = "str"

\* C11: when the symbol file parses to a list of strings the result has the
\* same elements as the file, none twice, in ascending lexicographic order
C11_ListDedupedAndSorted ==
    (Called /\ ListOfStrings) =>
        LET l == index_symbols.list
        IN /\ ~index_symbols.raised
           /\ { l[i] : i \in 1..Len(l) }
                 = { symbols_file.value.items[i]
                       : i \in 1..Len(symbols_file.value.items) }
           /\ \A i, j \in 1..Len(l) : i # j => l[i] # l[j]
           /\ Ascending(l)

\* the file ["b", "a", "a"] has given ["a", "b"]
C11_Witness ==
    /\ Called
    /\ symbols_file.state = "parsed"
    /\ symbols_file.value.kind = "list"
    /\ symbols_file.value.items
          = <<JsonStr(<<98>>), JsonStr(<<97>>), JsonStr(<<97>>)>>
    /\ index_symbols.list = <<JsonStr(<<97>>), JsonStr(<<98>>)>>

\* get_expiries has answered
Replied == expiries_reply # NotCalled

\* the day number of a date text, from the calendar
DayNumber(x) ==
    LET m == CASE x.b = "Jan" -> 1 [] x.b = "Feb" -> 2 [] x.b = "Dec" -> 12
    IN x.Y * 372 + m * 31 + x.d

\* the texts of the inputs that are calendar dates
RealDates ==
    { ExpiryText(30, "Jan", 2025), ExpiryText(27, "Feb", 2025),
      ExpiryText(26, "Dec", 2024) }

Occurrences(x, l) == Cardinality({ i \in 1..Len(l) : l[i] = x })

\* the provider answered with an expiry list whose elements are all dates
AllParse ==
    /\ expiries_data.kind = "dict"
    /\ expiries_data.has_records /\ expiries_data.has_expiryDates
    /\ \A i \in 1..Len(expiries_data.expiryDates) :
          expiries_data.expiryDates[i] \in RealDates

Key(p) == <<symbol[p], expiry_date[p]>>

\* two keys with the same symbol and different expiries
OtherExpiry(k1, k2) == k1[1] = k2[1] /\ k1[2] # k2[2]

\* the call of p was served from the cache / fetched and stored a snapshot
Hit(p) == Returned_(p) /\ nse_calls[p] = 0
FetchedAndStored(p) ==
    Returned_(p) /\ nse_calls[p] = 1 /\ options_data[p] # None

\* C13: freshness is per (symbol, expiry): the keys of one symbol with
\* different expiries have different files, a call is never served from an
\* entry written for another expiry of its symbol, and a call that fetched
\* leaves a file of its own, so that two expiries of a symbol fetched one
\* after the other are stored in two files
C13_ExpiriesCachedApart ==
    /\ \A k1, k2 \in Requests :
          OtherExpiry(k1, k2) => "data/" \o k1[1] \o "_" \o k1[2] \o ".json"
                                    # file_path(k2[1], k2[2])
    /\ \A p \in Procs :
          /\ Hit(p) => ~OtherExpiry(written_for[Path(p)], Key(p))
          /\ FetchedAndStored(p) =>
                /\ files[Path(p)].exists
                /\ written_for[Path(p)] = Key(p)
    /\ \A f, g \in Paths :
          OtherExpiry(written_for[f], written_for[g]) =>
             f # g /\ files[f].exists /\ files[g].exists

\* a call for ("A", "B_C") has fetched and stored while the entry written
\* for ("A", "C") was fresh: two fetches, two files
C13_Witness ==
    \E p \in Procs :
        /\ FetchedAndStored(p)
        /\ Key(p) = <<"A", "B_C">>
        /\ files["data/A_C.json"].exists
        /\ written_for["data/A_C.json"] = <<"A", "C">>
        /\ current_time[p] - files["data/A_C.json"].mtime < 30
        /\ written_for["data/A_B_C.json"] = <<"A", "B_C">>
        /\ files["data/A_B_C.json"].exists

\* no call is between its open() and the end of its json.dump
NobodyWriting == \A p \in Procs : pc[p] # "dump"

\* C14: under every interleaving of two concurrent calls for one key no
\* call raises, every call returns a complete snapshot or None, and when
\* no write is in progress the file holds one complete snapshot
C14_ConcurrentCallsSafe ==
    /\ \A p \in Procs :
          /\ ~raised[p]
          /\ Returned_(p) =>
                options_data[p] = None \/ options_data[p].kind = "dict"
    /\ \A f \in Paths :
          (NobodyWriting /\ files[f].exists) =>
             JsonLoad(files[f].content) # JSONDecodeError

\* C15: one file per (symbol, expiry) pair, distinct pairs having distinct
\* paths: the entry a call is served from was written for the call's own
\* pair, and the file a call is about to overwrite holds no entry written
\* for another pair
C15_OneFilePerPair ==
    \A p \in Procs :
        /\ Hit(p) => written_for[Path(p)] = Key(p)
        /\ pc[p] = "open" => written_for[Path(p)] \in {NoKey, Key(p)}

====
